---- MODULE Spec2Model ----
(***************************************************************************)
(* Easy-Finds-Hub: the article authoring and publishing workflow           *)
(* (src/src/pages/Dashboard.tsx, AddArticle), the image staging widget     *)
(* (src/src/components/ImageUpload.tsx) and the credential check           *)
(* (src/src/contexts/AuthContext.tsx).                                     *)
(*                                                                         *)
(* Strings are sequences of one-character strings; the empty string is     *)
(* <<>>.  The JavaScript event loop is modelled by one action per handler  *)
(* or per continuation of an async function: the code between two awaits   *)
(* runs atomically, and anything may run between them.  React commits a    *)
(* render before the next event is dispatched, so the closures of a        *)
(* handler hold the state as it is when the event arrives.                 *)
(***************************************************************************)
EXTENDS Integers, Sequences, FiniteSets, Bags, TLC

VARIABLES
    form,           \* react-hook-form field values: title, category, excerpt, tags
    errors,         \* formState.errors: the fields the last submit rejected
    content,        \* useState('') content      (Dashboard.tsx:40)
    image,          \* useState<File|null> image (Dashboard.tsx:36)
    imagePreview,   \* useState('') imagePreview (Dashboard.tsx:37)
    isSubmitting,   \* useState(false)           (Dashboard.tsx:38)
    readers,        \* FileReaders whose readAsDataURL has not completed yet
    tx,             \* the invocations of onSubmit so far: a bag of records
    articles,       \* the document store's 'articles' collection: a bag of documents
    storage,        \* the object store: the keys uploaded so far
    user,           \* AuthProvider: useState<User|null> (AuthContext.tsx:25)
    loginEmail,     \* the arguments of the login call
    loginPassword,
    loginResult     \* how that call ended

vars == <<form, errors, content, image, imagePreview, isSubmitting, readers, tx,
          articles, storage, user, loginEmail, loginPassword,
          loginResult>>

dashVars == <<form, errors, content, image, imagePreview, isSubmitting, readers,
              tx, articles, storage>>
authVars == <<user, loginEmail, loginPassword, loginResult>>

----------------------------------------------------------------------------
(* Bounds of the model *)

\* submit events that pass validation in one run
MaxTx == 2
\* FileReader reads pending at the same time, while publishing
MaxReads == 1
\* and while only composing a draft
MaxStagingReads == 2
\* length of the enumerated raw tag strings
MaxTagsLen == 5
\* length of the enumerated e-mail strings
MaxEmailLen == 5
\* length of the enumerated passwords
MaxPasswordLen == 7

(* Program constants *)

TitleMinLength == 10
ExcerptMaxLength == 160
PasswordMinLength == 6

----------------------------------------------------------------------------
(* Strings *)

EmptyStr == <<>>

Rep(c, n) == [i \in 1..n |-> c]

\* all strings over alphabet A of length at most n
RECURSIVE StringsUpTo(_, _)
StringsUpTo(A, n) ==
    IF n = 0 THEN {EmptyStr}
    ELSE LET S == StringsUpTo(A, n - 1)
         IN  S \cup {Append(s, c) : s \in {t \in S : Len(t) = n - 1}, c \in A}

\* the characters \s matches and trim() drops, among those the model uses
IsWhitespace(c) == c \in {" ", "\t", "\n"}

\* String.prototype.trim: drops the whitespace at both ends
RECURSIVE TrimStart(_)
TrimStart(s) ==
    IF s # EmptyStr /\ IsWhitespace(Head(s)) THEN TrimStart(Tail(s)) ELSE s

RECURSIVE TrimEnd(_)
TrimEnd(s) ==
    IF s # EmptyStr /\ IsWhitespace(s[Len(s)])
    THEN TrimEnd(SubSeq(s, 1, Len(s) - 1))
    ELSE s

Trim(s) == TrimEnd(TrimStart(s))

\* String.prototype.split(','): the pieces between the commas, in order; a
\* string without a comma (the empty string too) gives one piece
RECURSIVE SplitFrom(_, _, _)
SplitFrom(s, i, piece) ==
    IF i > Len(s) THEN <<piece>>
    ELSE IF s[i] = "," THEN <<piece>> \o SplitFrom(s, i + 1, EmptyStr)
    ELSE SplitFrom(s, i + 1, Append(piece, s[i]))

SplitComma(s) == SplitFrom(s, 1, EmptyStr)

MapTrim(pieces) == [i \in 1..Len(pieces) |-> Trim(pieces[i])]

\* the conversion with the empty elements filtered out
ParseTags_FilterEmpty(raw) ==
    SelectSeq(MapTrim(SplitComma(raw)), LAMBDA tag : tag # EmptyStr)

\* data.tags.split(',').map(tag => tag.trim())   (Dashboard.tsx:70)
ParseTags(raw) == MapTrim(SplitComma(raw))

----------------------------------------------------------------------------
(* The article form: what the user can have typed *)

Str_a_b_c == <<"a", ",", " ", "b", " ", ",", "c">>     \* "a, b ,c"
Str_a_comma == <<"a", ",">>                            \* "a,"

Titles   == {EmptyStr, Rep("t", TitleMinLength - 1), Rep("t", TitleMinLength)}
Excerpts == {EmptyStr, Rep("e", ExcerptMaxLength), Rep("e", ExcerptMaxLength + 1)}
TagStrings == {EmptyStr, Str_a_b_c}

\* the <option>s of the category <select>   (Dashboard.tsx:129-132)
Categories == {"home-decor", "travel-deals", "home-appliances", "garden-planting"}

\* the select shows its first option until the user picks another
DefaultCategory == "home-decor"

\* the fields before anything is typed, and after reset()
InitialForm ==
    [title |-> EmptyStr, category |-> DefaultCategory, excerpt |-> EmptyStr,
     tags |-> EmptyStr]

\* every combination of the field values above
FormProduct ==
    [title : Titles, category : Categories, excerpt : Excerpts, tags : TagStrings]

\* a draft that passes every rule, and the same with a title one short
ValidForm ==
    [title |-> Rep("t", TitleMinLength), category |-> "travel-deals",
     excerpt |-> <<"e", "x">>, tags |-> Str_a_b_c]
ShortTitleForm == [ValidForm EXCEPT !.title = Rep("t", TitleMinLength - 1)]

FormInputs == {ValidForm, ShortTitleForm}

Contents == {EmptyStr, <<"<p>", "x", "</p>">>}

Files  == {"a.png", "b.png"}
NoFile == "null"
\* the file the user picks where one is enough
OneFile == {"a.png"}

\* FileReader.readAsDataURL: the data URL of a file's bytes
DataUrl(f) == <<"data:", f>>

\* the rules register() gives each field   (Dashboard.tsx:112-157)
TitleRuleFails(f)    == f.title = EmptyStr \/ Len(f.title) < TitleMinLength
CategoryRuleFails(f) == f.category = ""
ExcerptRuleFails(f)  == f.excerpt = EmptyStr \/ Len(f.excerpt) > ExcerptMaxLength
TagsRuleFails(f)     == f.tags = EmptyStr

\* the rules run fail-fast: only the first failing field is reported
FieldErrors_FailFast(f) ==
    IF TitleRuleFails(f) THEN {"title"}
    ELSE IF CategoryRuleFails(f) THEN {"category"}
    ELSE IF ExcerptRuleFails(f) THEN {"excerpt"}
    ELSE IF TagsRuleFails(f) THEN {"tags"}
    ELSE {}

\* handleSubmit runs every registered field's rule and collects the failures
FieldErrors(f) ==
    (IF TitleRuleFails(f) THEN {"title"} ELSE {})
    \cup (IF CategoryRuleFails(f) THEN {"category"} ELSE {})
    \cup (IF ExcerptRuleFails(f) THEN {"excerpt"} ELSE {})
    \cup (IF TagsRuleFails(f) THEN {"tags"} ELSE {})

----------------------------------------------------------------------------
(* One invocation of onSubmit: its position and what its closure holds *)

NoKey == <<>>

NewTx ==
    [pc |-> "accepted", data |-> InitialForm, image |-> NoFile,
     content |-> EmptyStr, key |-> NoKey, imageUrl |-> EmptyStr, doc |-> <<>>,
     uploadCalled |-> FALSE, uploadDone |-> FALSE, urlDone |-> FALSE,
     writeCalled |-> FALSE, failedAt |-> "none", alert |-> ""]

\* Date.now() and new Date().toISOString(): the instants of a run are not told
\* apart, so two reads of the clock may give the same value
Timestamp == "now"

\* `articles/${Date.now()}-${image.name}`   (Dashboard.tsx:65)
StorageKey(f) == <<"articles/", Timestamp, "-", f>>

\* getDownloadURL(storageRef)
PublicUrl(key) == <<"https://">> \o key

MsgPublished == "Article published successfully!"
MsgError     == "Error publishing article. Please try again."

\* the object handed to addDoc   (Dashboard.tsx:72-78)
ArticleDoc(data, c, url) ==
    [title |-> data.title, category |-> data.category, excerpt |-> data.excerpt,
     tags |-> ParseTags(data.tags), content |-> c, imageUrl |-> url,
     createdAt |-> Timestamp]

Txs == BagToSet(tx)
One(x) == SetToBag({x})
\* the bag tx with invocation t moved on to t2
Step(t, t2) == (tx (-) One(t)) (+) One(t2)

InFlight(t) == t.pc \in {"uploading", "resolving", "writing"}
Ended(t)    == t.pc \in {"done", "failed"}

RECURSIVE SumReads(_)
SumReads(S) ==
    IF S = {} THEN 0
    ELSE LET f == CHOOSE x \in S : TRUE IN readers[f] + SumReads(S \ {f})

\* the reads that have not completed yet
PendingReads == SumReads(Files)

----------------------------------------------------------------------------
(* Initial state: AddArticle mounted, nobody logged in *)

InitDash ==
    /\ form = InitialForm
    /\ errors = {}
    /\ content = EmptyStr
    /\ image = NoFile
    /\ imagePreview = EmptyStr
    /\ isSubmitting = FALSE
    /\ readers = [f \in Files |-> 0]
    /\ tx = EmptyBag
    /\ articles = EmptyBag
    /\ storage = {}

InitAuth ==
    /\ user = <<>>       \* null
    /\ loginEmail = EmptyStr
    /\ loginPassword = EmptyStr
    /\ loginResult = "none"

Init == InitDash /\ InitAuth

----------------------------------------------------------------------------
(* User input on the form *)

\* typing into the registered inputs / picking a category
TypeFields(f) ==
    /\ form' = f
    /\ UNCHANGED <<errors, content, image, imagePreview, isSubmitting, readers,
                   tx, articles, storage>>
    /\ UNCHANGED authVars

\* the editor's onUpdate calls onChange = setContent   (Dashboard.tsx:177)
setContent(c) ==
    /\ content' = c
    /\ UNCHANGED <<form, errors, image, imagePreview, isSubmitting, readers,
                   tx, articles, storage>>
    /\ UNCHANGED authVars

\* the file input is rendered only while no preview shows (ImageUpload.tsx:17,38)
FileInputShown == imagePreview = EmptyStr
\* and the remove button only while one does               (ImageUpload.tsx:17,24)
RemoveButtonShown == imagePreview # EmptyStr

handleImageChange(file) ==
    /\ FileInputShown
    /\ file # NoFile
    /\ image' = file
    /\ readers' = [readers EXCEPT ![file] = @ + 1]
    /\ UNCHANGED <<form, errors, content, imagePreview, isSubmitting, tx,
                   articles, storage>>
    /\ UNCHANGED authVars

\* reader.onloadend   (Dashboard.tsx:47-49): it fires when the read succeeded,
\* with the data URL as reader.result, and when it failed, with null (which the
\* widgets treat like the empty string)
ReaderLoadEnd(file) ==
    /\ readers[file] > 0
    /\ readers' = [readers EXCEPT ![file] = @ - 1]
    /\ \/ imagePreview' = DataUrl(file)
       \/ imagePreview' = EmptyStr
    /\ UNCHANGED <<form, errors, content, image, isSubmitting, tx,
                   articles, storage>>
    /\ UNCHANGED authVars

removeImage ==
    /\ RemoveButtonShown
    /\ image' = NoFile
    /\ imagePreview' = EmptyStr
    /\ UNCHANGED <<form, errors, content, isSubmitting, readers, tx,
                   articles, storage>>
    /\ UNCHANGED authVars

----------------------------------------------------------------------------
(* Submitting: handleSubmit(onSubmit)   (Dashboard.tsx:108, 59-91) *)

\* the submit button carries disabled={isSubmitting}   (Dashboard.tsx:180-187)
SubmitEnabled == ~isSubmitting

\* what onSubmit is called with: the field values handleSubmit took, and the
\* image and content of the render whose closure it is
Accept(f, img, c) == [NewTx EXCEPT !.data = f, !.image = img, !.content = c]

\* A submit event.  handleSubmit takes the field values, runs the rules and,
\* when none fails, calls onSubmit(data) once its validation has resolved.
HandleSubmit ==
    /\ SubmitEnabled
    /\ errors' = FieldErrors(form)
    /\ \/ /\ FieldErrors(form) # {}
          /\ UNCHANGED tx
       \/ /\ FieldErrors(form) = {}
          /\ BagCardinality(tx) < MaxTx
          /\ tx' = tx (+) One(Accept(form, image, content))
    /\ UNCHANGED <<form, content, image, imagePreview, isSubmitting, readers,
                   articles, storage>>
    /\ UNCHANGED authVars


\* the addDoc call reading the content state of the latest render
CallAddDoc_LiveContent(t, url) ==
    [t EXCEPT !.pc = "writing", !.imageUrl = url, !.writeCalled = TRUE,
              !.doc = <<ArticleDoc(t.data, content, url)>>]

\* the addDoc call with imageUrl left as initialised
CallAddDoc_DropsUrl(t, url) ==
    [t EXCEPT !.pc = "writing", !.imageUrl = EmptyStr, !.writeCalled = TRUE,
              !.doc = <<ArticleDoc(t.data, t.content, EmptyStr)>>]

\* the addDoc call of lines 70-78, with the image URL the closure has by then
CallAddDoc(t, url) ==
    [t EXCEPT !.pc = "writing", !.imageUrl = url, !.writeCalled = TRUE,
              !.doc = <<ArticleDoc(t.data, t.content, url)>>]

\* uploadBytes called without await: addDoc is called in the same turn
FirstCall_NoAwait(t) ==
    IF t.image # NoFile
    THEN [t EXCEPT !.pc = "writing", !.uploadCalled = TRUE, !.writeCalled = TRUE,
                   !.key = StorageKey(t.image),
                   !.imageUrl = PublicUrl(StorageKey(t.image)),
                   !.doc = <<ArticleDoc(t.data, t.content,
                                        PublicUrl(StorageKey(t.image)))>>]
    ELSE [t EXCEPT !.pc = "writing", !.writeCalled = TRUE,
                   !.doc = <<ArticleDoc(t.data, t.content, EmptyStr)>>]

\* lines 62-66: with an image, uploadBytes is called; without, lines 70-78
FirstCall(t) ==
    IF t.image # NoFile
    THEN [t EXCEPT !.pc = "uploading", !.uploadCalled = TRUE,
                   !.key = StorageKey(t.image)]
    ELSE CallAddDoc(t, EmptyStr)

\* onSubmit from its first line to its first await   (Dashboard.tsx:60-72)
OnSubmitEnter(t) ==
    /\ t.pc = "accepted"
    /\ isSubmitting' = TRUE
    /\ tx' = Step(t, FirstCall(t))
    /\ UNCHANGED <<form, errors, content, image, imagePreview, readers,
                   articles, storage>>
    /\ UNCHANGED authVars

\* catch without the finally block
CatchFinally_NoFinally(t, where) ==
    /\ tx' = Step(t, [t EXCEPT !.pc = "failed", !.failedAt = where,
                               !.alert = MsgError])
    /\ UNCHANGED <<form, errors, content, image, imagePreview, isSubmitting,
                   readers, articles, storage>>
    /\ UNCHANGED authVars

\* catch and finally   (Dashboard.tsx:85-90)
CatchFinally(t, where) ==
    /\ isSubmitting' = FALSE
    /\ tx' = Step(t, [t EXCEPT !.pc = "failed", !.failedAt = where,
                               !.alert = MsgError])
    /\ UNCHANGED <<form, errors, content, image, imagePreview, readers,
                   articles, storage>>
    /\ UNCHANGED authVars

\* await uploadBytes(storageRef, image) resolves; getDownloadURL is called
UploadBytesResolved(t) ==
    /\ t.pc = "uploading"
    /\ storage' = storage \cup {t.key}
    /\ tx' = Step(t, [t EXCEPT !.pc = "resolving", !.uploadDone = TRUE])
    /\ UNCHANGED <<form, errors, content, image, imagePreview, isSubmitting,
                   readers, articles>>
    /\ UNCHANGED authVars

UploadBytesRejected(t) ==
    /\ t.pc = "uploading"
    /\ CatchFinally(t, "upload")

\* await getDownloadURL(storageRef) resolves; lines 70-78 call addDoc
GetDownloadURLResolved(t) ==
    /\ t.pc = "resolving"
    /\ tx' = Step(t, CallAddDoc([t EXCEPT !.urlDone = TRUE], PublicUrl(t.key)))
    /\ UNCHANGED <<form, errors, content, image, imagePreview, isSubmitting,
                   readers, articles, storage>>
    /\ UNCHANGED authVars

GetDownloadURLRejected(t) ==
    /\ t.pc = "resolving"
    /\ CatchFinally(t, "url")

\* the reset without setImage(null)
ResetDraft_KeepsImage ==
    /\ form' = InitialForm
    /\ errors' = {}
    /\ content' = EmptyStr
    /\ image' = image
    /\ imagePreview' = EmptyStr

\* reset(); setContent(''); setImage(null); setImagePreview('')  (lines 80-83)
ResetDraft ==
    /\ form' = InitialForm
    /\ errors' = {}
    /\ content' = EmptyStr
    /\ image' = NoFile
    /\ imagePreview' = EmptyStr

\* await addDoc(...) resolves: the document is stored; lines 80-84, finally
AddDocResolved(t) ==
    /\ t.pc = "writing"
    /\ articles' = articles (+) One(t.doc[1])
    /\ ResetDraft
    /\ isSubmitting' = FALSE
    /\ tx' = Step(t, [t EXCEPT !.pc = "done", !.alert = MsgPublished])
    /\ UNCHANGED <<readers, storage>>
    /\ UNCHANGED authVars

AddDocRejected(t) ==
    /\ t.pc = "writing"
    /\ CatchFinally(t, "write")

----------------------------------------------------------------------------
Next ==
    \/ \E f \in FormInputs : TypeFields(f)
    \/ \E c \in Contents : setContent(c)
    \/ \E file \in OneFile : PendingReads < MaxReads /\ handleImageChange(file)
    \/ \E file \in Files : ReaderLoadEnd(file)
    \/ removeImage
    \/ HandleSubmit
    \/ \E t \in Txs : OnSubmitEnter(t)
    \/ \E t \in Txs : UploadBytesResolved(t)
    \/ \E t \in Txs : UploadBytesRejected(t)
    \/ \E t \in Txs : GetDownloadURLResolved(t)
    \/ \E t \in Txs : GetDownloadURLRejected(t)
    \/ \E t \in Txs : AddDocResolved(t)
    \/ \E t \in Txs : AddDocRejected(t)

Spec == Init /\ [][Next]_vars

\* composing a draft with either of two files, without submitting
NextStaging ==
    \/ \E f \in FormInputs : TypeFields(f)
    \/ \E c \in Contents : setContent(c)
    \/ \E file \in Files : PendingReads < MaxStagingReads /\ handleImageChange(file)
    \/ \E file \in Files : ReaderLoadEnd(file)
    \/ removeImage

SpecStaging == Init /\ [][NextStaging]_vars

----------------------------------------------------------------------------
(* The article form with a wider choice of drafts already typed in *)

TagAlphabet == {"a", " ", ","}
TagInputs == StringsUpTo(TagAlphabet, MaxTagsLen) \cup {Str_a_b_c, Str_a_comma}

WideForms ==
    FormProduct \cup {[ValidForm EXCEPT !.tags = raw] : raw \in TagInputs}

InitForm ==
    /\ form \in WideForms
    /\ errors = {}
    /\ content = EmptyStr
    /\ image = NoFile
    /\ imagePreview = EmptyStr
    /\ isSubmitting = FALSE
    /\ readers = [f \in Files |-> 0]
    /\ tx = EmptyBag
    /\ articles = EmptyBag
    /\ storage = {}
    /\ InitAuth

\* submitting what is typed, with no image staged
NextForm ==
    \/ HandleSubmit
    \/ \E t \in Txs : OnSubmitEnter(t)
    \/ \E t \in Txs : AddDocResolved(t)
    \/ \E t \in Txs : AddDocRejected(t)

SpecForm == InitForm /\ [][NextForm]_vars

----------------------------------------------------------------------------
(* The credential check   (AuthContext.tsx:24-58) *)

AdminEmail ==
    <<"a", "d", "m", "i", "n", "@", "e", "a", "s", "y", "f", "i", "n", "d",
      "s", "h", "u", "b", ".", "c", "o", "m">>
AdminPassword ==
    <<"a", "d", "m", "i", "n", "1", "2", "3">>

Str_a_at_b_com ==
    <<"a", "@", "b", ".", "c", "o", "m">>
Str_not_an_email ==
    <<"n", "o", "t", "-", "a", "n", "-", "e", "m", "a", "i", "l">>
Str_short ==
    <<"s", "h", "o", "r", "t">>
\* the admin address with its last letter changed
Str_admin_con == [AdminEmail EXCEPT ![Len(AdminEmail)] = "n"]
\* the admin password with a letter appended / its last letter dropped
Str_admin1234 == Append(AdminPassword, "4")
Str_admin12 == SubSeq(AdminPassword, 1, Len(AdminPassword) - 1)

EmailAlphabet == {"a", "@", ".", " "}
EmailInputs ==
    StringsUpTo(EmailAlphabet, MaxEmailLen)
    \cup {AdminEmail, Str_a_at_b_com, Str_not_an_email, Str_admin_con}
PasswordInputs ==
    {Rep("x", n) : n \in 0..MaxPasswordLen}
    \cup {AdminPassword, Str_short, Str_admin1234, Str_admin12}

\* [^\s@]
IsLocalChar(c) == ~IsWhitespace(c) /\ c # "@"

\* /^[^\s@]+@[^\s@]+\.[^\s@]+$/.test(email)   (AuthContext.tsx:29-30):
\* some "@" and some later "." cut the string into three non-empty runs of
\* characters that are neither whitespace nor "@"
EmailRegexTest(email) ==
    \E i \in 1..Len(email) : \E j \in 1..Len(email) :
        /\ email[i] = "@"
        /\ email[j] = "."
        /\ 1 < i
        /\ i + 1 < j
        /\ j < Len(email)
        /\ \A k \in (1..(i - 1)) \cup ((i + 1)..(j - 1)) \cup ((j + 1)..Len(email)) :
              IsLocalChar(email[k])

ErrInvalidFormat        == "Please enter a valid email address"
ErrWeakCredential       == "Password must be at least 6 characters long"
ErrAuthenticationFailed == "Invalid email or password"
LoginOk                 == "resolved"

NoUser == <<>>
Session(email) == <<[email |-> email, isAdmin |-> TRUE]>>

\* the checks with the password length tested first
LoginOutcome_PasswordFirst(email, password) ==
    IF Len(password) < PasswordMinLength THEN ErrWeakCredential
    ELSE IF ~EmailRegexTest(email) THEN ErrInvalidFormat
    ELSE IF email = AdminEmail /\ password = AdminPassword THEN LoginOk
    ELSE ErrAuthenticationFailed

\* how login(email, password) ends   (AuthContext.tsx:27-45)
LoginOutcome(email, password) ==
    IF ~EmailRegexTest(email) THEN ErrInvalidFormat
    ELSE IF Len(password) < PasswordMinLength THEN ErrWeakCredential
    ELSE IF email = AdminEmail /\ password = AdminPassword THEN LoginOk
    ELSE ErrAuthenticationFailed

\* login: setUser runs only on the path that does not throw
login ==
    /\ loginResult = "none"
    /\ loginResult' = LoginOutcome(loginEmail, loginPassword)
    /\ user' = IF LoginOutcome(loginEmail, loginPassword) = LoginOk
               THEN Session(loginEmail)
               ELSE user
    /\ UNCHANGED <<loginEmail, loginPassword>>
    /\ UNCHANGED dashVars

\* logout: setUser(null)   (AuthContext.tsx:47-49)
logout ==
    /\ user' = NoUser
    /\ UNCHANGED <<loginEmail, loginPassword, loginResult>>
    /\ UNCHANGED dashVars

\* a login call with any of the enumerated arguments, made with nobody logged
\* in or with the session of an earlier login still there
InitLogin ==
    /\ InitDash
    /\ user \in {NoUser, Session(AdminEmail)}
    /\ loginEmail \in EmailInputs
    /\ loginPassword \in PasswordInputs
    /\ loginResult = "none"

NextAuth == login \/ logout

SpecAuth == InitLogin /\ [][NextAuth]_vars

----------------------------------------------------------------------------
(* Properties *)

\* how many invocations of the bag tx lie in the set S
RECURSIVE CopiesOf(_)
CopiesOf(S) ==
    IF S = {} THEN 0
    ELSE LET t == CHOOSE x \in S : TRUE IN CopiesIn(t, tx) + CopiesOf(S \ {t})

NumInFlight == CopiesOf({t \in Txs : InFlight(t)})
NumDone     == CopiesOf({t \in Txs : t.pc = "done"})
NumFailed   == CopiesOf({t \in Txs : t.pc = "failed"})

\* C1: in an invocation with a staged image, addDoc is called only after
\* uploadBytes and getDownloadURL have both resolved (the object is then in
\* the store); an invocation whose upload or URL resolution failed never
\* called addDoc; and the store holds one document per invocation that
\* succeeded, so none for an invocation whose upload failed.
C1_UploadBeforeWrite ==
    /\ \A t \in Txs :
          /\ (t.writeCalled /\ t.image # NoFile) =>
                (t.uploadCalled /\ t.uploadDone /\ t.urlDone /\ t.key \in storage)
          /\ t.failedAt \in {"upload", "url"} => (~t.writeCalled /\ t.doc = <<>>)
          /\ t.failedAt = "upload" => ~t.uploadDone
    /\ BagCardinality(articles) = NumDone

C1_Witness ==
    /\ \E t \in Txs : t.image # NoFile /\ t.pc = "done"
    /\ \E t \in Txs : t.failedAt = "upload"

\* C2: at most one invocation of onSubmit is between its first line and its
\* end at any time.
C2_AtMostOneInFlight == NumInFlight <= 1

\* C3: the step that ends an invocation successfully leaves the fields, the
\* content, the staged file and the preview in their initial state; a step
\* that ends one in failure changes none of them.
C3_ResetOnSuccessOnly ==
    [][ /\ NumDone' > NumDone =>
              /\ form' = InitialForm
              /\ form'.title = EmptyStr /\ form'.excerpt = EmptyStr
              /\ form'.tags = EmptyStr
              /\ content' = EmptyStr
              /\ image' = NoFile
              /\ imagePreview' = EmptyStr
        /\ NumFailed' > NumFailed =>
              UNCHANGED <<form, content, image, imagePreview>> ]_vars

C3_Witness ==
    /\ \E t \in Txs : t.pc = "done"
    /\ \E t \in Txs : t.pc = "failed"
    /\ form = ValidForm
    /\ content # EmptyStr
    /\ image # NoFile
    /\ imagePreview # EmptyStr

\* C4: every step that ends an invocation, in success or in failure, leaves
\* isSubmitting false; an invocation that failed has shown the error alert;
\* and isSubmitting is true only while some invocation is in flight.
C4_SubmitReenabled ==
    /\ [][(NumDone' + NumFailed' > NumDone + NumFailed) => ~isSubmitting']_vars
    /\ [](\A t \in Txs : t.pc = "failed" => t.alert = MsgError)
    /\ [](isSubmitting => NumInFlight > 0)

C4_Witness ==
    /\ \E t \in Txs : t.failedAt = "upload"
    /\ \E t \in Txs : t.failedAt = "write"
    /\ ~isSubmitting

\* what an invocation's document may carry as imageUrl
DocImageUrlJustified(t) ==
    LET d == t.doc[1] IN
    /\ t.image = NoFile =>
          (~t.uploadCalled /\ ~t.uploadDone /\ d.imageUrl = EmptyStr)
    /\ t.image # NoFile =>
          /\ t.uploadDone /\ t.urlDone
          /\ t.key = StorageKey(t.image) /\ t.key \in storage
          /\ d.imageUrl = PublicUrl(t.key)
    /\ d.imageUrl # EmptyStr => t.uploadDone

\* C7: a document comes from an invocation that had no image, called no
\* upload and wrote the empty imageUrl, or from one that had an image, whose
\* upload and URL resolution both resolved, and wrote that object's URL.
C7_ImageUrl ==
    /\ \A t \in Txs : t.doc # <<>> => DocImageUrlJustified(t)
    /\ \A d \in BagToSet(articles) :
          \E t \in Txs : t.pc = "done" /\ t.doc = <<d>>

C7_Witness ==
    /\ \E t \in Txs : t.pc = "done" /\ t.image = NoFile
    /\ \E t \in Txs : t.pc = "done" /\ t.image # NoFile

\* C9: a preview that shows was read from the file that is staged now.
C9_PreviewOfStagedFile ==
    imagePreview # EmptyStr => (image # NoFile /\ imagePreview = DataUrl(image))

\* the document of an invocation is made of what the invocation was given
DocHoldsAccepted(t) ==
    LET d == t.doc[1] IN
    /\ d.title = t.data.title
    /\ d.category = t.data.category
    /\ d.excerpt = t.data.excerpt
    /\ d.tags = MapTrim(SplitComma(t.data.tags))
    /\ d.content = t.content

\* C10: a submit event that is accepted starts an invocation holding the
\* fields, the content and the image of that moment; the document it hands to
\* addDoc, and the object it uploads, are those, whatever was edited since;
\* and its success resets the draft, edits made meanwhile included.
C10_DocIsDraftAtAccept ==
    /\ [][BagCardinality(tx') > BagCardinality(tx) =>
            \E t \in Txs' :
                /\ t.pc = "accepted"
                /\ CopiesIn(t, tx') = CopiesIn(t, tx) + 1
                /\ t.data = form /\ t.content = content /\ t.image = image]_vars
    /\ [](\A t \in Txs :
            /\ t.doc # <<>> => DocHoldsAccepted(t)
            /\ t.uploadCalled => (t.image # NoFile /\ t.key = StorageKey(t.image)))
    /\ [](\A d \in BagToSet(articles) :
            \E t \in Txs : t.pc = "done" /\ t.doc = <<d>>)
    /\ [][NumDone' > NumDone =>
            (form' = InitialForm /\ content' = EmptyStr /\ image' = NoFile)]_vars

C10_Witness ==
    \E t \in Txs :
        /\ t.pc = "done"
        /\ t.image # NoFile
        /\ t.content # EmptyStr
        /\ \E u \in Txs :
              /\ u.pc = "writing"
              /\ u.data # form /\ u.content # content /\ u.image # image

----------------------------------------------------------------------------
(* Properties of the form's rules and of the tag conversion (SpecForm) *)

FieldNames == {"title", "category", "excerpt", "tags"}

\* each field's rule, as the form's messages state them
RuleBroken(fld, f) ==
    CASE fld = "title"    -> Len(f.title) = 0 \/ Len(f.title) < 10
      [] fld = "category" -> f.category \notin Categories
      [] fld = "excerpt"  -> Len(f.excerpt) = 0 \/ Len(f.excerpt) > 160
      [] fld = "tags"     -> Len(f.tags) = 0

BrokenFields(f) == {fld \in FieldNames : RuleBroken(fld, f)}

\* C8: a submit event on a draft that breaks a rule starts no invocation and
\* changes nothing but the reported errors, which become exactly the fields
\* whose own rule is broken; a draft that breaks none is accepted with no
\* error, whatever the content.
C8_ValidationBlocks ==
    [][ /\ BrokenFields(form) # {} => BagCardinality(tx') <= BagCardinality(tx)
        /\ (errors' # errors /\ UNCHANGED articles) => errors' = BrokenFields(form)
        /\ (errors' # errors /\ errors' # {}) =>
              UNCHANGED <<form, content, image, imagePreview, isSubmitting,
                          readers, tx, articles, storage>>
        /\ (errors' # errors /\ form = [ValidForm EXCEPT !.title = Rep("t", 9)]) =>
              errors' = {"title"}
        /\ "content" \notin errors' ]_vars

C8_Witness ==
    /\ form.title = Rep("t", 9)
    /\ errors = {"title"}
    /\ tx = EmptyBag
    /\ ~isSubmitting
    /\ articles = EmptyBag

\* the maximal run of a string between the positions lo and hi (exclusive)
\* that starts and ends with a character other than whitespace
Inner(s, lo, hi) ==
    LET solid == {k \in (lo + 1)..(hi - 1) : s[k] \notin {" ", "\t", "\n"}}
    IN  IF solid = {} THEN <<>>
        ELSE LET a == CHOOSE k \in solid : \A m \in solid : k <= m
                 b == CHOOSE k \in solid : \A m \in solid : k >= m
             IN  [k \in 1..(b - a + 1) |-> s[a + k - 1]]

\* the tags the claim describes: one per comma-separated piece, in order
TagsAsClaimed(raw, tags) ==
    LET commas == {k \in 1..Len(raw) : raw[k] = ","}
        cuts   == commas \cup {0, Len(raw) + 1}
        \* the n-th cut, counting from 0
        Cut(n) == CHOOSE k \in cuts : Cardinality({m \in cuts : m < k}) = n
    IN  /\ Len(tags) = Cardinality(commas) + 1
        /\ \A n \in 1..Len(tags) : tags[n] = Inner(raw, Cut(n - 1), Cut(n))

\* C6: the tags of a document are the comma-separated pieces of the raw tag
\* string, each trimmed, in order, empty pieces and repetitions kept.
C6_TagsSplitTrimmed ==
    \A t \in Txs : t.doc # <<>> =>
        /\ TagsAsClaimed(t.data.tags, t.doc[1].tags)
        /\ t.data.tags = Str_a_b_c => t.doc[1].tags = << <<"a">>, <<"b">>, <<"c">> >>
        /\ t.data.tags = Str_a_comma => t.doc[1].tags = << <<"a">>, <<>> >>

C6_Witness ==
    /\ \E t \in Txs :
          /\ t.pc = "done"
          /\ t.data.tags = Str_a_b_c
          /\ t.doc[1].tags = << <<"a">>, <<"b">>, <<"c">> >>
          /\ t.doc[1] \in BagToSet(articles)

----------------------------------------------------------------------------
(* Properties of the credential check (SpecAuth) *)

\* local@domain.tld: no whitespace, one "@", something before it, and after
\* it a "." with something on both sides
HasEmailShape(email) ==
    LET ats == {k \in 1..Len(email) : email[k] = "@"} IN
    /\ Cardinality(ats) = 1
    /\ \A k \in 1..Len(email) : email[k] \notin {" ", "\t", "\n"}
    /\ \A at \in ats :
          /\ at > 1
          /\ \E dot \in (at + 2)..(Len(email) - 1) : email[dot] = "."

\* C5: login fails with the format error on an e-mail of the wrong shape,
\* else with the password error on a password shorter than 6, else with the
\* credential error unless the pair is the admin pair; for the admin pair it
\* sets the session to that e-mail with isAdmin true; a failed login leaves
\* the session as it was.
C5_LoginClassifies ==
    [][loginResult' # loginResult =>
        /\ loginResult' =
              IF ~HasEmailShape(loginEmail) THEN ErrInvalidFormat
              ELSE IF Len(loginPassword) < 6 THEN ErrWeakCredential
              ELSE IF loginEmail # AdminEmail \/ loginPassword # AdminPassword
                   THEN ErrAuthenticationFailed
              ELSE LoginOk
        /\ loginResult' = LoginOk =>
              user' = <<[email |-> AdminEmail, isAdmin |-> TRUE]>>
        /\ loginResult' # LoginOk => user' = user ]_vars

C5_Witness ==
    /\ loginResult = LoginOk
    /\ loginEmail = AdminEmail
    /\ loginPassword = AdminPassword
    /\ user = <<[email |-> AdminEmail, isAdmin |-> TRUE]>>

====
